---- MODULE Spec2Model ----
(***************************************************************************)
(* State-machine model of src/task3.py: the non-transitive dice game with  *)
(* HMAC commitments.  The program is one sequential thread; pc is its      *)
(* position.  Strings are sequences of one-character strings, so that      *)
(* strip(), upper(), split(',') and int() are computed, not assumed.       *)
(***************************************************************************)
EXTENDS Integers, Sequences, FiniteSets, TLC

VARIABLES
  pc,          \* position of the single thread of control
  args,        \* sys.argv[1:]
  dices,       \* the list returned by DiceParser.parse (<<>> before / on error)
  err,         \* the ValueError raised by the parser (rule "none" when none)
  rnd,         \* the live SecureRandomizer object of the current round
  selection,   \* the last line read by input(), after .strip()
  user_input,  \* the accepted integer of the current round (None = -1)
  prompts,     \* menus printed by the current (else the latest) prompt loop
  user_first,  \* result of _determine_first_player
  user_idx,    \* index of GameManager.user_dice in dices (None = -1)
  comp_idx,    \* index of GameManager.comp_dice in dices (None = -1)
  roundIdx,    \* which GameRound of play_game is running (0 = none yet)
  results,     \* GameRound.result per player name (None = NoResult)
  reported,    \* players whose "roll result is" line has been printed
  outcome,     \* the final-result lines printed so far
  exitStatus,  \* process exit status (-1 while running)
  created,     \* SecureRandomizer objects constructed so far
  tagsShown,   \* HMAC lines printed so far
  revealsDone, \* "(KEY=...)" lines printed so far
  ret,         \* what the last SecureRandomizer.reveal() call returned
  probe        \* arguments and result of a function called on its own (no game)

vars == <<pc, args, dices, err, rnd, selection, user_input, prompts, user_first,
          user_idx, comp_idx, roundIdx, results, reported, outcome, exitStatus,
          created, tagsShown, revealsDone, ret, probe>>

----------------------------------------------------------------------------
(* Bounds of the exploration *)

\* menus one prompt loop may print before only a legal option or X is read
MaxPrompts == 2
\* secrets.token_bytes(32) is sampled from keys number 0..MaxKey
MaxKey == 1

----------------------------------------------------------------------------
(* Python string and integer primitives used by the program *)

Digits == <<"0", "1", "2", "3", "4", "5", "6", "7", "8", "9">>
IsDigit(c) == \E i \in 1..10 : Digits[i] = c
DigitVal(c) == (CHOOSE i \in 1..10 : Digits[i] = c) - 1

IsSpace(c) == c = " "

RECURSIVE LStrip(_)
LStrip(s) == IF s # <<>> /\ IsSpace(Head(s)) THEN LStrip(Tail(s)) ELSE s

RECURSIVE RStrip(_)
RStrip(s) ==
  IF s # <<>> /\ IsSpace(s[Len(s)]) THEN RStrip(SubSeq(s, 1, Len(s) - 1)) ELSE s

\* str.strip()
Strip(s) == RStrip(LStrip(s))

\* str.upper() on the input alphabet
UpperChar(c) == IF c = "x" THEN "X" ELSE IF c = "a" THEN "A" ELSE c
Upper(s) == [i \in 1..Len(s) |-> UpperChar(s[i])]

RECURSIVE DigitsVal(_, _)
DigitsVal(s, acc) ==
  IF s = <<>> THEN acc ELSE DigitsVal(Tail(s), acc * 10 + DigitVal(Head(s)))

\* int(str): surrounding whitespace, an optional sign, then one or more digits;
\* anything else raises ValueError (ok = FALSE).  The input alphabet has no "_".
ParseInt(str) ==
  LET s == Strip(str)
      signed == s # <<>> /\ Head(s) \in {"+", "-"}
      body == IF signed THEN Tail(s) ELSE s
      good == body # <<>> /\ \A i \in 1..Len(body) : IsDigit(body[i])
      mag == IF good THEN DigitsVal(body, 0) ELSE 0
  IN [ok |-> good,
      val |-> IF signed /\ Head(s) = "-" THEN 0 - mag ELSE mag]

RECURSIVE SplitAcc(_, _, _)
SplitAcc(s, cur, acc) ==
  IF s = <<>> THEN Append(acc, cur)
  ELSE IF Head(s) = "," THEN SplitAcc(Tail(s), <<>>, Append(acc, cur))
  ELSE SplitAcc(Tail(s), Append(cur, Head(s)), acc)

\* str.split(',')
SplitComma(s) == SplitAcc(s, <<>>, <<>>)

\* int.bit_length() of a non-negative integer
RECURSIVE BitLength(_)
BitLength(n) == IF n = 0 THEN 0 ELSE 1 + BitLength(n \div 2)

RECURSIVE Pow(_, _)
Pow(b, e) == IF e = 0 THEN 1 ELSE b * Pow(b, e - 1)

\* int.to_bytes(len, "big")
ToBytes(n, len) == [i \in 1..len |-> (n \div Pow(256, len - i)) % 256]

\* int.from_bytes(bytes, "big")
RECURSIVE FromBytes(_)
FromBytes(b) ==
  IF b = <<>> THEN 0 ELSE FromBytes(SubSeq(b, 1, Len(b) - 1)) * 256 + b[Len(b)]

HexDigits == <<"0", "1", "2", "3", "4", "5", "6", "7",
               "8", "9", "a", "b", "c", "d", "e", "f">>

\* bytes.hex()
Hex(b) ==
  [i \in 1..(2 * Len(b)) |->
     IF i % 2 = 1 THEN HexDigits[(b[(i + 1) \div 2] \div 16) + 1]
     ELSE HexDigits[(b[i \div 2] % 16) + 1]]

\* hmac.new(key, message, sha3_256).hexdigest(): an ideal MAC, i.e. a
\* collision-free function of the key and the message bytes.
Hmac(key, message) == [mac_key |-> key, mac_msg |-> message]

----------------------------------------------------------------------------
(* DiceParser *)

MinDice == 3
MinSides == 6

NoErr == [rule |-> "none", i |-> 0, j |-> 0]
Err(rule, i, j) == [rule |-> rule, i |-> i, j |-> j]

SeqRange(s) == {s[i] : i \in 1..Len(s)}

NonEmpty(x) == x # <<>>

\* DiceParser._parse_dice_values
ParseDiceValues(arg, dice_number) ==
  LET parts == SplitComma(arg)
      stripped == [i \in 1..Len(parts) |-> Strip(parts[i])]
      values == SelectSeq(stripped, NonEmpty)
      allInt == \A i \in 1..Len(values) : ParseInt(values[i]).ok
      dice_values == [i \in 1..Len(values) |-> ParseInt(values[i]).val]
  IN IF ~allInt THEN [ok |-> FALSE, err |-> Err("non_integer", dice_number, 0), sides |-> <<>>]
     ELSE IF Len(dice_values) < MinSides
          THEN [ok |-> FALSE, err |-> Err("too_few_sides", dice_number, 0), sides |-> <<>>]
          ELSE [ok |-> TRUE, err |-> NoErr, sides |-> dice_values]

\* the first pair (i, j), i < j, in the order of the two nested loops
FirstPair(P) ==
  CHOOSE p \in P : \A q \in P : p[1] < q[1] \/ (p[1] = q[1] /\ p[2] <= q[2])

Pairs(n) == {p \in (1..n) \X (1..n) : p[1] < p[2]}

\* DiceParser._validate_minimum_args
TooFewArgs(a) == Len(a) < MinDice

\* DiceParser._validate_dice_sizes: the dice (numbered from 2) whose size differs
SizeMismatches(ds) == {i \in 2..Len(ds) : Len(ds[i]) # Len(ds[1])}

\* DiceParser._validate_unique_dice, first pair of loops
IdenticalPairs(ds) == {p \in Pairs(Len(ds)) : ds[p[1]] = ds[p[2]]}

\* the shared-value test on neighbouring dice only
SharingPairsAdjacent(ds) ==
  {p \in Pairs(Len(ds)) :
     p[2] = p[1] + 1 /\ SeqRange(ds[p[1]]) \cap SeqRange(ds[p[2]]) # {}}

\* DiceParser._validate_unique_dice, second pair of loops
SharingPairs(ds) ==
  {p \in Pairs(Len(ds)) : SeqRange(ds[p[1]]) \cap SeqRange(ds[p[2]]) # {}}

Min(S) == CHOOSE x \in S : \A y \in S : x <= y

\* parse with the shared-value loops run before the identical-sides loops
ParseCommonFirst(a) ==
  LET n == Len(a)
      per == [i \in 1..n |-> ParseDiceValues(a[i], i)]
      bad == {i \in 1..n : ~per[i].ok}
      ds == [i \in 1..n |-> per[i].sides]
      Fail(e) == [ok |-> FALSE, err |-> e, dices |-> <<>>]
  IN IF TooFewArgs(a) THEN Fail(Err("min_dice", 0, 0))
     ELSE IF bad # {} THEN Fail(per[Min(bad)].err)
     ELSE IF SizeMismatches(ds) # {} THEN Fail(Err("size", 1, Min(SizeMismatches(ds))))
     ELSE IF SharingPairs(ds) # {}
          THEN Fail(Err("common", FirstPair(SharingPairs(ds))[1],
                        FirstPair(SharingPairs(ds))[2]))
     ELSE IF IdenticalPairs(ds) # {}
          THEN Fail(Err("identical", FirstPair(IdenticalPairs(ds))[1],
                        FirstPair(IdenticalPairs(ds))[2]))
     ELSE [ok |-> TRUE, err |-> NoErr, dices |-> ds]

\* DiceParser.parse: the dice, or the first ValueError raised
Parse(a) ==
  LET n == Len(a)
      per == [i \in 1..n |-> ParseDiceValues(a[i], i)]
      bad == {i \in 1..n : ~per[i].ok}
      ds == [i \in 1..n |-> per[i].sides]
      Fail(e) == [ok |-> FALSE, err |-> e, dices |-> <<>>]
  IN IF TooFewArgs(a) THEN Fail(Err("min_dice", 0, 0))
     ELSE IF bad # {} THEN Fail(per[Min(bad)].err)
     ELSE IF SizeMismatches(ds) # {} THEN Fail(Err("size", 1, Min(SizeMismatches(ds))))
     ELSE IF IdenticalPairs(ds) # {}
          THEN Fail(Err("identical", FirstPair(IdenticalPairs(ds))[1],
                        FirstPair(IdenticalPairs(ds))[2]))
     ELSE IF SharingPairs(ds) # {}
          THEN Fail(Err("common", FirstPair(SharingPairs(ds))[1],
                        FirstPair(SharingPairs(ds))[2]))
     ELSE [ok |-> TRUE, err |-> NoErr, dices |-> ds]

----------------------------------------------------------------------------
(* SecureRandomizer *)

KeyLen == 32

\* a sample of the values secrets.token_bytes(32) can return
KeyOf(k) == [i \in 1..KeyLen |-> (k * 151 + i * 7) % 256]
Keys == {KeyOf(k) : k \in 0..MaxKey}

NoTag == Hmac(<<>>, <<>>)

\* no live SecureRandomizer (the local variable is out of scope)
NoRnd ==
  [live |-> FALSE, start |-> 0, end |-> 0, range_size |-> 0, secret_key |-> <<>>,
   computer_number |-> -1, tags |-> 0, reveals |-> 0, shown |-> NoTag]

\* SecureRandomizer.__init__ up to the key; computer_number is set by the sampler.
\* tags, reveals and shown record the calls made on the object and the tag printed.
NewRandomizer(start, end, key) ==
  [live |-> TRUE, start |-> start, end |-> end, range_size |-> end - start + 1,
   secret_key |-> key, computer_number |-> -1, tags |-> 0, reveals |-> 0,
   shown |-> NoTag]

\* the number of bytes rounded down
DrawBytesFloor(range_size) == BitLength(range_size) \div 8

\* bytes drawn per attempt by _generate_secure_random
DrawBytes(range_size) == (BitLength(range_size) + 7) \div 8

\* the values int.from_bytes(secrets.token_bytes(n), "big") can take
DrawSpace(range_size) == 0..(Pow(256, DrawBytes(range_size)) - 1)

\* an acceptance test that no draw passes
AcceptsNone(rand_num, range_size) == rand_num < 0

\* the acceptance test with <= for <
AcceptsInclusive(rand_num, range_size) == rand_num <= range_size

\* the acceptance test of the rejection sampler
Accepts(rand_num, range_size) == rand_num < range_size

\* the message get_hmac authenticates
Message(number) ==
  LET nb == (BitLength(number) + 7) \div 8
  IN ToBytes(number, IF nb = 0 THEN 1 ELSE nb)

\* SecureRandomizer.get_hmac
GetHmac(r) == Hmac(r.secret_key, Message(r.computer_number))

NoRet == [kind |-> "none", number |-> -1, key |-> <<>>]

\* reveal that draws the number again instead of returning the committed one
RevealRedrawn(r) ==
  [kind |-> "value", number |-> r.start + ((r.computer_number - r.start + 1) % r.range_size),
   key |-> Hex(r.secret_key)]

\* SecureRandomizer.reveal: returns the pair, whatever was called before
Reveal(r) == [kind |-> "value", number |-> r.computer_number, key |-> Hex(r.secret_key)]

----------------------------------------------------------------------------
(* Inputs of the exploration: command lines and typed lines *)

RECURSIVE Join(_)
Join(fields) ==
  IF Len(fields) = 0 THEN <<>>
  ELSE IF Len(fields) = 1 THEN fields[1]
  ELSE fields[1] \o <<",">> \o Join(Tail(fields))

\* a die argument whose faces are single characters
Arg(chars) == Join([i \in 1..Len(chars) |-> <<chars[i]>>])

DieA == Arg(<<"2", "2", "4", "4", "9", "9">>)
DieB == Arg(<<"6", "8", "1", "1", "8", "6">>)
DieC == Arg(<<"7", "5", "3", "7", "5", "3">>)
\* seven faces, one of them written with a sign and a blank
DieP == Join(<< <<"1","0">>, <<"1","1">>, <<"1","2">>, <<"1","3">>, <<"1","4">>,
                <<"1","5">>, <<" ","-","1">> >>)
DieQ == Join(<< <<"2","0">>, <<"2","1">>, <<"2","2">>, <<"2","3">>, <<"2","4">>,
                <<"2","5">>, <<"2","6">> >>)
DieR == Join(<< <<"3","0">>, <<"3","1">>, <<"3","2">>, <<"3","3">>, <<"3","4">>,
                <<"3","5">>, <<"3","6">> >>)

ArgLists ==
  { <<DieA, DieB, DieC>>,
    <<DieP, DieQ, DieR>>,
    <<DieA, DieB>>,
    <<DieA, Arg(<<"6", "8", "1", "a", "8", "6">>), DieC>>,
    <<DieA, Arg(<<"6", "8", "1">>), DieC>>,
    <<DieA, Arg(<<"6", "8", "1", "1", "8", "6", "0">>), DieC>>,
    <<DieA, DieA, DieC>>,
    <<DieA, DieB, Arg(<<"7", "5", "3", "7", "5", "9">>)>>,
    <<Arg(<<"2", "2", "4", "4", "9">>), Arg(<<"6", "8", "1", "1", "8">>),
      Arg(<<"7", "5", "3", "7", "5">>)>> }

\* lines the user may type at a prompt; input() always returns a line (standard
\* input is a terminal that is not closed)
InputLines ==
  { <<"?">>, <<"X">>, <<"x">>, <<" ", "x", " ">>,
    <<"0">>, <<"1">>, <<"2">>, <<"3">>, <<"4">>, <<"5">>, <<"6">>, <<"7">>,
    <<"-", "1">>, <<"+", "1">>, <<" ", "0", "2">>, <<"1", "0">>,
    <<"a">>, <<>>, <<"?", "?">> }

----------------------------------------------------------------------------
(* The menu logic shared by every prompt loop *)

\* Menu without the range test on the parsed integer
MenuNoRange(sel, legal) ==
  IF sel = <<"?">> THEN "help"
  ELSE IF Upper(sel) = <<"X">> THEN "exit"
  ELSE IF ParseInt(sel).ok THEN "ok"
  ELSE "invalid"

\* Menu that takes only the capital letter as the exit option
MenuCapitalOnly(sel, legal) ==
  IF sel = <<"?">> THEN "help"
  ELSE IF sel = <<"X">> THEN "exit"
  ELSE IF ParseInt(sel).ok /\ ParseInt(sel).val \in legal THEN "ok"
  ELSE "invalid"

\* what one iteration of a prompt loop does with the stripped line, given the
\* set of integers the menu accepts
Menu(sel, legal) ==
  IF sel = <<"?">> THEN "help"
  ELSE IF Upper(sel) = <<"X">> THEN "exit"
  ELSE IF ParseInt(sel).ok /\ ParseInt(sel).val \in legal THEN "ok"
  ELSE "invalid"

Players == {"User", "Computer"}

\* play_game that plays the computer's round first
PlayOrderComputerFirst == <<"Computer", "User">>

\* GameManager.play_game: the rounds in the order they are played
PlayOrder == <<"User", "Computer">>

NoResults == [p \in Players |-> [has |-> FALSE, val |-> 0]]

\* GameRound.player_name and GameRound.dice of the round being played
Player == PlayOrder[roundIdx]
\* the two dice handed to the wrong rounds
DiceIdxExchanged(p) == IF p = "User" THEN comp_idx ELSE user_idx

DiceIdx(p) == IF p = "User" THEN user_idx ELSE comp_idx
RoundDice == dices[DiceIdx(Player) + 1]
NumSides == Len(RoundDice)

\* GameManager._get_remaining_indices
RemainingIndices(excluded_index) ==
  LET IsOther(i) == i # excluded_index
  IN SelectSeq([i \in 1..Len(dices) |-> i - 1], IsOther)

\* no function is being called on its own
NoProbe == [fn |-> "none"]

----------------------------------------------------------------------------
(* Initial state: the process has started with some command line *)

Init ==
  /\ pc = "init"
  /\ args \in ArgLists
  /\ dices = <<>>
  /\ err = NoErr
  /\ rnd = NoRnd
  /\ selection = <<>>
  /\ user_input = -1
  /\ prompts = 0
  /\ user_first = FALSE
  /\ user_idx = -1
  /\ comp_idx = -1
  /\ roundIdx = 0
  /\ results = NoResults
  /\ reported = {}
  /\ outcome = <<>>
  /\ exitStatus = -1
  /\ created = 0
  /\ tagsShown = 0
  /\ revealsDone = 0
  /\ ret = NoRet
  /\ probe = NoProbe

gameVars == <<probe, args, dices, err, user_first, user_idx, comp_idx, roundIdx, results>>
outVars == <<reported, outcome, exitStatus>>
countVars == <<created, tagsShown, revealsDone>>

\* GameOrchestrator._parse_dice, and run_game's handler for its ValueError
ParseDice ==
  /\ pc = "init"
  /\ LET p == Parse(args)
     IN IF p.ok
        THEN /\ dices' = p.dices
             /\ pc' = "toss_new"
             /\ UNCHANGED <<err, exitStatus>>
        ELSE /\ err' = p.err
             /\ pc' = "error"
             /\ exitStatus' = 1
             /\ UNCHANGED dices
  /\ UNCHANGED <<probe, args, rnd, selection, user_input, prompts, user_first, user_idx,
                 comp_idx, roundIdx, results, reported, outcome, countVars, ret>>

----------------------------------------------------------------------------
(* Steps shared by the three fairness rounds *)

\* SecureRandomizer(start, end): the key is drawn, the sampler runs next
Construct(start, end, next) ==
  /\ \E key \in Keys : rnd' = NewRandomizer(start, end, key)
  /\ created' = created + 1
  /\ pc' = next
  /\ UNCHANGED <<gameVars, outVars, selection, user_input, prompts, tagsShown,
                 revealsDone, ret>>

\* one iteration of the loop of _generate_secure_random
Sample(next) ==
  /\ \E rand_num \in DrawSpace(rnd.range_size) :
       IF Accepts(rand_num, rnd.range_size)
       THEN /\ rnd' = [rnd EXCEPT !.computer_number = rand_num + rnd.start]
            /\ pc' = next
       ELSE UNCHANGED <<rnd, pc>>
  /\ UNCHANGED <<gameVars, outVars, countVars, selection, user_input, prompts, ret>>

\* print(... HMAC={get_hmac()} ...); the round's prompt loop starts next, so
\* prompts counts its menus from 0
ShowTag(next) ==
  /\ rnd' = [rnd EXCEPT !.tags = @ + 1, !.shown = GetHmac(rnd)]
  /\ tagsShown' = tagsShown + 1
  /\ prompts' = 0
  /\ pc' = next
  /\ UNCHANGED <<gameVars, outVars, created, revealsDone, selection, user_input, ret>>

\* the menu is printed at the top of a prompt loop
PrintMenu(next) ==
  /\ prompts' = prompts + 1
  /\ pc' = next
  /\ UNCHANGED <<gameVars, outVars, countVars, rnd, selection, user_input, ret>>

\* sys.exit(0): SystemExit is not an Exception, so run_game does not catch it
SysExit ==
  /\ pc' = "sys_exit"
  /\ exitStatus' = 0

\* a loop that gives up on a line it does not accept
AgainGivesUp(again) ==
  /\ prompts < MaxPrompts
  /\ pc' = "error"

\* "?" (the table is printed) or an invalid line: back to the top of the loop
Again(again) ==
  /\ prompts < MaxPrompts
  /\ pc' = again

\* comp_number, key = reveal(); print(... {comp_number} (KEY={key}) ...)
DoReveal(next) ==
  /\ ret' = Reveal(rnd)
  /\ rnd' = [rnd EXCEPT !.reveals = @ + 1]
  /\ revealsDone' = revealsDone + 1
  /\ pc' = next
  /\ UNCHANGED <<gameVars, outVars, created, tagsShown, selection, user_input, prompts>>

----------------------------------------------------------------------------
(* GameOrchestrator._determine_first_player *)

NewToss == pc = "toss_new" /\ Construct(0, 1, "toss_sample")

SampleToss == pc = "toss_sample" /\ Sample("toss_tag")

ShowTossTag == pc = "toss_tag" /\ ShowTag("toss_prompt")

PromptToss == pc = "toss_prompt" /\ PrintMenu("toss_input")

\* the guesses the toss menu accepts
TossLegal == {0, 1}

\* where `continue` resumes: the top of the while loop, after the commitment
TossLoopTop == "toss_prompt"

\* the comparison negated
GuessedWrong(comp_num, guess) == comp_num # guess

\* user_first = comp_num == user_input
GuessedRight(comp_num, guess) == comp_num = guess

ReadToss ==
  /\ pc = "toss_input"
  /\ \E line \in InputLines :
       LET sel == Strip(line)
           m == Menu(sel, TossLegal)
       IN /\ selection' = sel
          /\ CASE m = "exit" -> SysExit /\ UNCHANGED user_input
               [] m = "ok" -> /\ user_input' = ParseInt(sel).val
                              /\ pc' = "toss_reveal"
                              /\ UNCHANGED exitStatus
               [] OTHER -> Again(TossLoopTop) /\ UNCHANGED <<user_input, exitStatus>>
  /\ UNCHANGED <<gameVars, reported, outcome, countVars, rnd, prompts, ret>>

RevealToss == pc = "toss_reveal" /\ DoReveal("toss_return")

\* user_first = comp_num == user_input; the function returns
DecideFirst ==
  /\ pc = "toss_return"
  /\ user_first' = GuessedRight(ret.number, user_input)
  /\ rnd' = NoRnd
  /\ ret' = NoRet
  /\ user_input' = -1
  /\ pc' = "sel_start"
  /\ UNCHANGED <<probe, args, dices, err, user_idx, comp_idx, roundIdx, results, outVars,
                 countVars, selection, prompts>>

----------------------------------------------------------------------------
(* GameManager.select_dices *)

\* a new prompt loop is about to start: prompts counts its menus from 0
SelectDices ==
  /\ pc = "sel_start"
  /\ pc' = IF user_first THEN "selU_prompt" ELSE "selC_choose"
  /\ prompts' = 0
  /\ UNCHANGED <<gameVars, outVars, countVars, rnd, selection, user_input, ret>>

PromptSelU == pc = "selU_prompt" /\ PrintMenu("selU_input")

\* where `continue` resumes in _handle_user_first_selection
SelULoopTop == "selU_prompt"

\* _handle_user_first_selection: the indices the menu accepts
UserFirstLegal == 0..(Len(dices) - 1)

\* _handle_user_first_selection: the indices secrets.choice draws from
CompCandidates(user_dice_index) == SeqRange(RemainingIndices(user_dice_index))

ReadSelU ==
  /\ pc = "selU_input"
  /\ \E line \in InputLines :
       LET sel == Strip(line)
           m == Menu(sel, UserFirstLegal)
       IN /\ selection' = sel
          /\ CASE m = "exit" ->
                    SysExit /\ UNCHANGED <<user_idx, comp_idx, roundIdx>>
               [] m = "ok" ->
                    /\ user_idx' = ParseInt(sel).val
                    /\ \E c \in CompCandidates(ParseInt(sel).val) : comp_idx' = c
                    /\ roundIdx' = 1
                    /\ pc' = "round_new"
                    /\ UNCHANGED exitStatus
               [] OTHER ->
                    /\ Again(SelULoopTop)
                    /\ UNCHANGED <<user_idx, comp_idx, roundIdx, exitStatus>>
  /\ UNCHANGED <<probe, args, dices, err, user_first, results, reported, outcome, countVars,
                 rnd, user_input, prompts, ret>>

\* _handle_computer_first_selection: secrets.randbelow(len(self.dices))
CompChooseFirst ==
  /\ pc = "selC_choose"
  /\ \E c \in 0..(Len(dices) - 1) : comp_idx' = c
  /\ pc' = "selC_prompt"
  /\ UNCHANGED <<probe, args, dices, err, user_first, user_idx, roundIdx, results, outVars,
                 countVars, rnd, selection, user_input, prompts, ret>>

PromptSelC == pc = "selC_prompt" /\ PrintMenu("selC_input")

\* where `continue` resumes in _handle_computer_first_selection: the top of the
\* while loop, after the computer's choice
SelCLoopTop == "selC_prompt"

\* a menu that forgets to leave the computer's die out
CompFirstLegalAll == 0..(Len(dices) - 1)

\* _handle_computer_first_selection: the indices the menu accepts
CompFirstLegal == SeqRange(RemainingIndices(comp_idx))

ReadSelC ==
  /\ pc = "selC_input"
  /\ \E line \in InputLines :
       LET sel == Strip(line)
           m == Menu(sel, CompFirstLegal)
       IN /\ selection' = sel
          /\ CASE m = "exit" -> SysExit /\ UNCHANGED <<user_idx, roundIdx>>
               [] m = "ok" ->
                    /\ user_idx' = ParseInt(sel).val
                    /\ roundIdx' = 1
                    /\ pc' = "round_new"
                    /\ UNCHANGED exitStatus
               [] OTHER ->
                    /\ Again(SelCLoopTop)
                    /\ UNCHANGED <<user_idx, roundIdx, exitStatus>>
  /\ UNCHANGED <<probe, args, dices, err, user_first, comp_idx, results, reported, outcome,
                 countVars, rnd, user_input, prompts, ret>>

----------------------------------------------------------------------------
(* GameRound.play, once per entry of PlayOrder *)

NewRound == pc = "round_new" /\ Construct(0, NumSides - 1, "round_sample")

SampleRound == pc = "round_sample" /\ Sample("round_tag")

\* a round that prints the number and the key together with the tag, before the
\* user's input is asked for
ShowRoundTagRevealing ==
  /\ pc = "round_tag"
  /\ rnd' = [rnd EXCEPT !.tags = @ + 1, !.shown = GetHmac(rnd), !.reveals = @ + 1]
  /\ ret' = Reveal(rnd)
  /\ tagsShown' = tagsShown + 1
  /\ revealsDone' = revealsDone + 1
  /\ prompts' = 0
  /\ pc' = "round_prompt"
  /\ UNCHANGED <<gameVars, outVars, created, selection, user_input>>

\* _setup_randomizer that forgets to print the HMAC line
ShowRoundTagOmitted ==
  /\ pc = "round_tag"
  /\ pc' = "round_prompt"
  /\ prompts' = 0
  /\ UNCHANGED <<gameVars, outVars, countVars, rnd, selection, user_input, ret>>

ShowRoundTag == pc = "round_tag" /\ ShowTag("round_prompt")

PromptRound == pc = "round_prompt" /\ PrintMenu("round_input")

\* a loop that would set the randomizer up again on every iteration
RoundLoopTopRegenerates == "round_new"

\* where _get_user_input's loop resumes: its own top, after _setup_randomizer
RoundLoopTop == "round_prompt"

\* _get_user_input: the numbers the menu accepts
RoundLegal == 0..(NumSides - 1)

ReadRound ==
  /\ pc = "round_input"
  /\ \E line \in InputLines :
       LET sel == Strip(line)
           m == Menu(sel, RoundLegal)
       IN /\ selection' = sel
          /\ CASE m = "exit" -> SysExit /\ UNCHANGED user_input
               [] m = "ok" -> /\ user_input' = ParseInt(sel).val
                              /\ pc' = "round_reveal"
                              /\ UNCHANGED exitStatus
               [] OTHER -> Again(RoundLoopTop) /\ UNCHANGED <<user_input, exitStatus>>
  /\ UNCHANGED <<gameVars, reported, outcome, countVars, rnd, prompts, ret>>

RevealRound == pc = "round_reveal" /\ DoReveal("round_calc")

\* the sum without the parentheses: only b is reduced
CombineUnparenthesised(a, b, modulus) == a + (b % modulus)

\* the fairness combination of _calculate_and_display_result
Combine(a, b, modulus) == (a + b) % modulus

\* the rest of _calculate_and_display_result; play() stores and returns the
\* result, and play_game goes on to the next round or returns the dict
CalcResult ==
  /\ pc = "round_calc"
  /\ LET combined_index == Combine(ret.number, user_input, NumSides)
         result_value == RoundDice[combined_index + 1]
     IN /\ results' = [results EXCEPT ![Player] = [has |-> TRUE, val |-> result_value]]
        /\ reported' = reported \cup {Player}
  /\ rnd' = NoRnd
  /\ ret' = NoRet
  /\ user_input' = -1
  /\ IF roundIdx < Len(PlayOrder)
     THEN roundIdx' = roundIdx + 1 /\ pc' = "round_new"
     ELSE roundIdx' = roundIdx /\ pc' = "compare"
  /\ UNCHANGED <<probe, args, dices, err, user_first, user_idx, comp_idx, outcome, exitStatus,
                 countVars, selection, prompts>>

----------------------------------------------------------------------------
(* GameOrchestrator._display_final_results *)

\* the comparison with its operands exchanged
FinalMessageExchanged(user_result, computer_result) ==
  IF computer_result > user_result
  THEN [kind |-> "user_wins", left |-> user_result, right |-> computer_result]
  ELSE IF user_result > computer_result
       THEN [kind |-> "system_wins", left |-> computer_result, right |-> user_result]
       ELSE [kind |-> "tie", left |-> user_result, right |-> computer_result]

FinalMessage(user_result, computer_result) ==
  IF user_result > computer_result
  THEN [kind |-> "user_wins", left |-> user_result, right |-> computer_result]
  ELSE IF computer_result > user_result
       THEN [kind |-> "system_wins", left |-> computer_result, right |-> user_result]
       ELSE [kind |-> "tie", left |-> user_result, right |-> computer_result]

\* the message is printed and run_game returns: exit status 0
DisplayFinalResults ==
  /\ pc = "compare"
  /\ outcome' = Append(outcome, FinalMessage(results["User"].val, results["Computer"].val))
  /\ pc' = "done"
  /\ exitStatus' = 0
  /\ UNCHANGED <<gameVars, reported, countVars, rnd, selection, user_input, prompts, ret>>

----------------------------------------------------------------------------

Next ==
  \/ ParseDice
  \/ NewToss \/ SampleToss \/ ShowTossTag \/ PromptToss \/ ReadToss \/ RevealToss
  \/ DecideFirst
  \/ SelectDices \/ PromptSelU \/ ReadSelU \/ CompChooseFirst \/ PromptSelC \/ ReadSelC
  \/ NewRound \/ SampleRound \/ ShowRoundTag \/ PromptRound \/ ReadRound \/ RevealRound
  \/ CalcResult
  \/ DisplayFinalResults

Spec == Init /\ [][Next]_vars

----------------------------------------------------------------------------
(* SecureRandomizer as a class: any caller, any order of calls *)

\* calls of one method the exploration makes on one object
MaxCalls == 2

\* the ranges the callers construct
ApiRanges == {<<0, 1>>, <<0, 5>>, <<1, 3>>}

InitAPI ==
  /\ pc = "api"
  /\ args = <<>>
  /\ dices = <<>>
  /\ err = NoErr
  /\ rnd = NoRnd
  /\ selection = <<>>
  /\ user_input = -1
  /\ prompts = 0
  /\ user_first = FALSE
  /\ user_idx = -1
  /\ comp_idx = -1
  /\ roundIdx = 0
  /\ results = NoResults
  /\ reported = {}
  /\ outcome = <<>>
  /\ exitStatus = -1
  /\ created = 0
  /\ tagsShown = 0
  /\ revealsDone = 0
  /\ ret = NoRet
  /\ probe = NoProbe

\* SecureRandomizer(start, end), the whole constructor
ApiConstruct ==
  /\ pc = "api"
  /\ created < MaxCalls
  /\ \E range \in ApiRanges, key \in Keys :
       LET fresh == NewRandomizer(range[1], range[2], key)
       IN \E rand_num \in DrawSpace(fresh.range_size) :
            /\ Accepts(rand_num, fresh.range_size)
            /\ rnd' = [fresh EXCEPT !.computer_number = rand_num + fresh.start]
  /\ created' = created + 1
  /\ ret' = NoRet
  /\ UNCHANGED <<pc, gameVars, outVars, selection, user_input, prompts, tagsShown,
                 revealsDone>>

\* a call of get_hmac() whose result is shown
ApiGetHmac ==
  /\ pc = "api"
  /\ rnd.live
  /\ rnd.tags < MaxCalls
  /\ rnd' = [rnd EXCEPT !.tags = @ + 1, !.shown = GetHmac(rnd)]
  /\ tagsShown' = tagsShown + 1
  /\ UNCHANGED <<pc, gameVars, outVars, selection, user_input, prompts, created,
                 revealsDone, ret>>

\* a call of reveal(): it has no guard and raises nothing
ApiReveal ==
  /\ pc = "api"
  /\ rnd.live
  /\ rnd.reveals < MaxCalls
  /\ ret' = Reveal(rnd)
  /\ rnd' = [rnd EXCEPT !.reveals = @ + 1]
  /\ revealsDone' = revealsDone + 1
  /\ UNCHANGED <<pc, gameVars, outVars, selection, user_input, prompts, created,
                 tagsShown>>

NextAPI == ApiConstruct \/ ApiGetHmac \/ ApiReveal

SpecAPI == InitAPI /\ [][NextAPI]_vars

----------------------------------------------------------------------------
(* Positions of the program *)

TossPcs ==
  {"toss_new", "toss_sample", "toss_tag", "toss_prompt", "toss_input", "toss_reveal",
   "toss_return"}

RoundPcs ==
  {"round_new", "round_sample", "round_tag", "round_prompt", "round_input",
   "round_reveal", "round_calc"}

SelPcs == {"sel_start", "selU_prompt", "selU_input", "selC_choose", "selC_prompt",
           "selC_input"}

InputPcs == {"toss_input", "selU_input", "selC_input", "round_input"}

----------------------------------------------------------------------------
(* The verifier's side: what the user recomputes from a printed reveal *)

HexVal(c) == (CHOOSE i \in 1..16 : HexDigits[i] = c) - 1

\* bytes.fromhex
FromHex(h) ==
  [i \in 1..(Len(h) \div 2) |-> HexVal(h[2 * i - 1]) * 16 + HexVal(h[2 * i])]

\* the tag recomputed from a printed (value, key) pair
Recomputed(r) == Hmac(FromHex(r.key), Message(r.number))

----------------------------------------------------------------------------
(* Claims *)

\* C1: in every fairness round (the toss and each roll round) the commitment is
\* revealed only after a legal input of that round has been captured: while the
\* round's input is outstanding nothing has been revealed, whatever number of
\* invalid or "?" lines came before, and a captured input is a legal option.
C1_RevealAfterInput ==
  /\ user_input = -1 => (ret = NoRet /\ rnd.reveals = 0)
  /\ user_input # -1 =>
       user_input \in (IF pc \in TossPcs THEN TossLegal ELSE RoundLegal)
  /\ (pc \in InputPcs \/ pc \in {"toss_prompt", "round_prompt"}) => user_input = -1

\* a roll round has revealed its number after the menu was printed twice
C1_Witness ==
  pc = "round_calc" /\ ret.kind = "value" /\ prompts >= 2 /\ user_input # -1

\* C2: the (value, key) pair returned by reveal() is the pair over which the tag
\* shown by get_hmac() was computed: the tag recomputed from the revealed pair
\* equals the tag shown earlier, and no step between construction, get_hmac and
\* reveal changes computer_number or secret_key.
C2_RevealMatchesTag ==
  /\ [](rnd.reveals > 0 =>
          (ret.kind = "value" /\ rnd.shown # NoTag /\ Recomputed(ret) = rnd.shown))
  /\ [][(rnd.live /\ rnd'.live) =>
          /\ rnd'.secret_key = rnd.secret_key
          /\ rnd.computer_number # -1 => rnd'.computer_number = rnd.computer_number]_vars

\* a roll round has revealed a non-zero number
C2_Witness == pc = "round_calc" /\ rnd.reveals = 1 /\ ret.number > 0

\* C3: in every fairness round the HMAC of the round's commitment is displayed
\* before the first prompt of the round: every step that prints the menu of the
\* toss or of a roll round is taken when the tag of the live commitment has been
\* shown, and the tag is the HMAC of the committed number.
C3_TagBeforePrompt ==
  [][(pc' \in {"toss_input", "round_input"} /\ pc' # pc) =>
       (rnd.live /\ rnd.tags = 1 /\ rnd.shown = GetHmac(rnd) /\ rnd.reveals = 0)]_vars

\* the first menu of a roll round is on the screen, after the round's tag
C3_Witness == pc = "round_input" /\ prompts = 1 /\ rnd.tags = 1


\* C4: reveal() fails with an integrity violation that aborts the session,
\* instead of returning (value, key), when it is called a second time on the
\* same commitment or before the commitment's tag has been shown.
C4_RevealGuarded ==
  [][(revealsDone' = revealsDone + 1 /\ (rnd.reveals >= 1 \/ rnd.tags = 0)) =>
       (ret'.kind = "raise" /\ exitStatus' # -1)]_vars

----------------------------------------------------------------------------
(* The stages of GameOrchestrator *)

Stage ==
  CASE pc = "init" -> "INIT"
    [] pc \in TossPcs -> "DETERMINE_FIRST"
    [] pc \in SelPcs -> "SELECT_DICE"
    [] pc \in RoundPcs -> IF Player = "User" THEN "USER_ROUND" ELSE "SYSTEM_ROUND"
    [] pc = "compare" -> "COMPARE"
    [] pc = "done" -> "END"
    [] OTHER -> "ABORTED"

\* the order of the stages as the specification lists them
ListedRank(st) ==
  CASE st = "INIT" -> 0
    [] st = "DETERMINE_FIRST" -> 1
    [] st = "SELECT_DICE" -> 2
    [] st = "SYSTEM_ROUND" -> 3
    [] st = "USER_ROUND" -> 4
    [] st = "COMPARE" -> 5
    [] st = "END" -> 6
    [] OTHER -> -1

\* the same order with the two roll rounds exchanged
PlayedRank(st) ==
  CASE st = "USER_ROUND" -> 3
    [] st = "SYSTEM_ROUND" -> 4
    [] OTHER -> ListedRank(st)

\* C5 as stated: a game that is not aborted passes through INIT,
\* DETERMINE_FIRST, SELECT_DICE, SYSTEM_ROUND, USER_ROUND, COMPARE, END in this
\* order, each stage entered once, none skipped and none revisited.
C5_ListedOrder ==
  /\ [][Stage' # "ABORTED" =>
          ListedRank(Stage') \in {ListedRank(Stage), ListedRank(Stage) + 1}]_vars
  /\ [][Stage # "ABORTED"]_vars

\* C5 as amended: the order is INIT, DETERMINE_FIRST, SELECT_DICE, USER_ROUND,
\* SYSTEM_ROUND, COMPARE, END; the user's roll round is played before the
\* system's.  Every step stays in its stage or enters the next one, or aborts.
C5_PlayedOrder ==
  /\ [][Stage' # "ABORTED" =>
          PlayedRank(Stage') \in {PlayedRank(Stage), PlayedRank(Stage) + 1}]_vars
  /\ [][Stage # "ABORTED"]_vars

\* the system's roll round is running and the user's roll has been reported
C5_Witness ==
  pc = "round_input" /\ Stage = "SYSTEM_ROUND" /\ reported = {"User"}

\* C6: every commitment is single-use.  A completed game has created exactly
\* three commitments, shown three tags and made three reveals; no commitment
\* has its tag shown or is revealed twice; a commitment is constructed only when
\* none is live, and is dropped only after one tag and one reveal; a prompt that
\* is re-issued after an invalid or "?" line leaves the commitment as it is.
C6_SingleUse ==
  /\ [](rnd.tags <= 1 /\ rnd.reveals <= 1 /\ rnd.reveals <= rnd.tags)
  /\ [](pc = "done" => (created = 3 /\ tagsShown = 3 /\ revealsDone = 3))
  /\ [][created' # created => (created' = created + 1 /\ ~rnd.live /\ rnd'.live)]_vars
  /\ [][(rnd.live /\ rnd' # rnd /\ (~rnd'.live \/ created' # created)) =>
          (rnd.tags = 1 /\ rnd.reveals = 1)]_vars
  /\ [][(pc \in InputPcs /\ pc' \notin {"sys_exit", "toss_reveal", "round_reveal",
                                        "round_new"}) =>
          (rnd' = rnd /\ created' = created /\ tagsShown' = tagsShown)]_vars

\* a completed game whose last prompt was issued more than once
C6_Witness == pc = "done" /\ created = 3 /\ revealsDone = 3 /\ prompts >= 2

\* C7: a completed game has printed exactly one outcome message, and no other
\* game has printed any; the message is "user wins" iff the user's face is the
\* greater, "system wins" iff the system's face is the greater, "tie" otherwise,
\* the faces being the results of the two roll rounds on the two selected dice.
C7_Outcome ==
  /\ Len(outcome) = (IF pc = "done" THEN 1 ELSE 0)
  /\ pc = "done" =>
       LET userFace == results["User"].val
           systemFace == results["Computer"].val
       IN /\ results["User"].has /\ results["Computer"].has
          /\ userFace \in SeqRange(dices[user_idx + 1])
          /\ systemFace \in SeqRange(dices[comp_idx + 1])
          /\ outcome[1].kind = "user_wins" <=> userFace > systemFace
          /\ outcome[1].kind = "system_wins" <=> systemFace > userFace
          /\ outcome[1].kind = "tie" <=> userFace = systemFace
          /\ outcome[1].kind \in {"user_wins", "system_wins", "tie"}

\* a completed game the system has won
C7_Witness ==
  pc = "done" /\ Len(outcome) = 1 /\ outcome[1].kind = "system_wins"


\* C8: in the turn-order round the commitment ranges over {0, 1}; a guess is
\* accepted only if the typed line is the integer 0 or 1; the user selects a die
\* first iff the guess equals the revealed (committed) value, otherwise the
\* system selects first; the guess is compared, not combined.
C8_TurnOrder ==
  /\ []((pc \in TossPcs /\ rnd.live) =>
          /\ rnd.start = 0 /\ rnd.end = 1
          /\ rnd.computer_number = -1 \/ rnd.computer_number \in {0, 1})
  /\ [](pc \in {"toss_reveal", "toss_return"} =>
          /\ user_input \in {0, 1}
          /\ ParseInt(selection).ok /\ ParseInt(selection).val = user_input)
  /\ [][pc = "toss_return" =>
          /\ ret.number = rnd.computer_number
          /\ user_first' <=> (user_input = rnd.computer_number)]_vars
  /\ [](pc \in {"selU_prompt", "selU_input"} =>
          (user_first /\ user_idx = -1 /\ comp_idx = -1))
  /\ [](pc \in {"selC_prompt", "selC_input"} =>
          (~user_first /\ user_idx = -1 /\ comp_idx # -1))

\* the user has guessed the toss and is asked for a die before the system chose
C8_Witness == pc = "selU_input" /\ user_first /\ comp_idx = -1

\* C9: after dice selection, in both branches, the user's die and the system's
\* die are different dice of the session.  User first: any index of the list is
\* accepted and the system's index is another one.  System first: the system's
\* index is any index of the list and a typed index equal to it is rejected and
\* the menu printed again.
C9_DistinctDice ==
  /\ []((user_idx # -1 /\ comp_idx # -1) =>
          /\ user_idx # comp_idx
          /\ {user_idx, comp_idx} \subseteq 0..(Len(dices) - 1)
          /\ dices[user_idx + 1] # dices[comp_idx + 1])
  /\ [](pc \in RoundPcs \cup {"compare", "done"} => (user_idx # -1 /\ comp_idx # -1))
  /\ [][(pc = "selU_input" /\ pc' = "round_new") =>
          /\ user_idx' = ParseInt(selection').val
          /\ comp_idx' \in (0..(Len(dices) - 1)) \ {user_idx'}]_vars
  /\ [][(pc = "selC_input" /\ ParseInt(selection').ok
           /\ ParseInt(selection').val = comp_idx) =>
          (pc' = "selC_prompt" /\ user_idx' = -1 /\ comp_idx' = comp_idx)]_vars
  /\ [][(pc = "selC_input" /\ pc' = "round_new") =>
          (user_idx' = ParseInt(selection').val /\ comp_idx' = comp_idx)]_vars

\* system first: the user typed the system's index, was asked again and then
\* chose another die
C9_Witness ==
  /\ pc = "round_new" /\ ~user_first /\ prompts >= 2
  /\ user_idx # -1 /\ comp_idx # -1

\* what every session that ended by exit satisfies, given the roll results
\* that may have been reported before the exit
ExitedWith(allowed) ==
  pc = "sys_exit" => (exitStatus = 0 /\ outcome = <<>> /\ reported \in allowed)

\* a step that reads X or x ends the session and prints nothing
ExitStep ==
  (pc \in InputPcs /\ Upper(selection') = <<"X">>) =>
    /\ pc' = "sys_exit" /\ exitStatus' = 0
    /\ UNCHANGED <<reported, outcome, results, prompts, countVars, rnd, ret>>

\* C10 as stated: at every prompt the line X or x ends the session at once with
\* exit status 0; nothing runs after it, no outcome message is printed, and no
\* roll result has been reported in a session that ends by exit.
C10_ExitNoPartialResults ==
  /\ []ExitedWith({{}})
  /\ [][ExitStep]_vars
  /\ [][pc # "sys_exit"]_vars

\* C10 as amended: at every prompt the line X or x ends the session at once
\* with exit status 0; nothing runs after it, no outcome message is printed and
\* the exit itself reports nothing; the only roll result such a session can
\* have reported is that of the first roll round (the user's), when X is typed
\* at the prompt of the second.
C10_ExitImmediate ==
  /\ []ExitedWith({{}, {PlayOrder[1]}})
  /\ [][ExitStep]_vars
  /\ [][pc # "sys_exit"]_vars

\* the session has ended by exit after the user's roll result was reported
C10_Witness == pc = "sys_exit" /\ exitStatus = 0 /\ reported = {"User"} /\ roundIdx = 2


----------------------------------------------------------------------------
(* The prompt loops, as the user sees them *)

PromptPcs == {"toss_prompt", "selU_prompt", "selC_prompt", "round_prompt"}

\* the integers that are menu options at the prompt the program waits at
LegalAt ==
  CASE pc = "toss_input" -> {0, 1}
    [] pc = "selU_input" -> 0..(Len(dices) - 1)
    [] pc = "selC_input" -> (0..(Len(dices) - 1)) \ {comp_idx}
    [] pc = "round_input" -> 0..(Len(RoundDice) - 1)
    [] OTHER -> {}

\* the line just read is neither a menu option nor X/x
NotAnOption(line) ==
  /\ Upper(line) # <<"X">>
  /\ ~(ParseInt(line).ok /\ ParseInt(line).val \in LegalAt)

PromptOf(at) ==
  CASE at = "toss_input" -> "toss_prompt"
    [] at = "selU_input" -> "selU_prompt"
    [] at = "selC_input" -> "selC_prompt"
    [] at = "round_input" -> "round_prompt"
    [] OTHER -> "none"

InputOf(at) ==
  CASE at = "toss_prompt" -> "toss_input"
    [] at = "selU_prompt" -> "selU_input"
    [] at = "selC_prompt" -> "selC_input"
    [] at = "round_prompt" -> "round_input"
    [] OTHER -> "none"

\* a step that reads a line that is not an option changes only the line read
\* and goes back to the top of the same loop
RetryStep ==
  (pc \in InputPcs /\ NotAnOption(selection')) =>
    (/\ pc' = PromptOf(pc)
     /\ UNCHANGED <<args, dices, err, rnd, user_input, prompts, user_first,
                    user_idx, comp_idx, roundIdx, results, reported, outcome,
                    exitStatus, created, tagsShown, revealsDone, ret>>)

\* the top of a loop prints its menu and waits for a line
MenuStep ==
  (pc \in PromptPcs) =>
    (/\ pc' = InputOf(pc)
     /\ prompts' = prompts + 1
     /\ UNCHANGED <<args, dices, err, rnd, user_input, user_first, user_idx,
                    comp_idx, roundIdx, results, reported, outcome, exitStatus,
                    created, tagsShown, revealsDone, ret, selection>>)

\* C11: at every prompt a line that is neither a menu option nor X/x (malformed
\* text, a number out of range, "?") changes nothing of the session (stage,
\* selected dice, the pending commitment with its value, key and tag, earlier
\* results, exit status) and the same menu is printed again, after which the
\* program waits at the same prompt; the session does not end.
C11_RetryKeepsState ==
  /\ [][RetryStep]_vars
  /\ [][MenuStep]_vars
  /\ [](pc \in InputPcs \cup PromptPcs => exitStatus = -1)

\* a roll round waits at its prompt for the second time, after a line that was
\* not an option, with its commitment shown and not revealed
C11_Witness ==
  /\ pc = "round_input" /\ prompts = 2 /\ NotAnOption(selection)
  /\ rnd.tags = 1 /\ rnd.reveals = 0


----------------------------------------------------------------------------
(* SecureRandomizer(min, max) constructed on its own, for any range *)

\* widest range of the one-byte ranges explored
MaxSpan == 8

\* ranges [min, max], max >= min: every width up to MaxSpan from several
\* minima, and one range of 256 values, for which two bytes are drawn
SamplerRanges ==
  {<<lo, lo + n - 1>> : lo \in {-3, 0, 1, 250}, n \in 1..MaxSpan} \cup {<<0, 255>>}

InitSampler ==
  /\ pc = "smp_new"
  /\ args = <<>>
  /\ dices = <<>>
  /\ err = NoErr
  /\ rnd = NoRnd
  /\ selection = <<>>
  /\ user_input = -1
  /\ prompts = 0
  /\ user_first = FALSE
  /\ user_idx = -1
  /\ comp_idx = -1
  /\ roundIdx = 0
  /\ results = NoResults
  /\ reported = {}
  /\ outcome = <<>>
  /\ exitStatus = -1
  /\ created = 0
  /\ tagsShown = 0
  /\ revealsDone = 0
  /\ ret = NoRet
  /\ probe = NoProbe

SmpConstruct ==
  /\ pc = "smp_new"
  /\ \E range \in SamplerRanges : Construct(range[1], range[2], "smp_sample")

SmpSample == pc = "smp_sample" /\ Sample("smp_done")

NextSampler == SmpConstruct \/ SmpSample

SpecSampler == InitSampler /\ [][NextSampler]_vars

\* positions at which the constructor of the live SecureRandomizer has returned
SampledPcs ==
  {"smp_done", "toss_tag", "toss_prompt", "toss_input", "toss_reveal", "toss_return",
   "round_tag", "round_prompt", "round_input", "round_reveal", "round_calc"}

\* C12: for every range [min, max] with max >= min the committed value of
\* SecureRandomizer(min, max) lies in [min, max], whatever bytes are drawn; in
\* the game the toss value is 0 or 1 and a roll round's value is in
\* [0, faceCount - 1].
C12_ValueInRange ==
  (rnd.live /\ pc \in SampledPcs) =>
    /\ rnd.start <= rnd.computer_number /\ rnd.computer_number <= rnd.end
    /\ pc \in TossPcs => rnd.computer_number \in {0, 1}
    /\ pc \in RoundPcs => rnd.computer_number \in 0..(Len(RoundDice) - 1)

\* the largest value of a range that starts below zero has been committed
C12_Witness ==
  /\ pc = "smp_done" /\ rnd.start < 0 /\ rnd.end > rnd.start
  /\ rnd.computer_number = rnd.end


----------------------------------------------------------------------------
(* The index computation of _calculate_and_display_result on its own *)

\* every variable of the game at its value before the game starts
Idle ==
  /\ args = <<>>
  /\ dices = <<>>
  /\ err = NoErr
  /\ rnd = NoRnd
  /\ selection = <<>>
  /\ user_input = -1
  /\ prompts = 0
  /\ user_first = FALSE
  /\ user_idx = -1
  /\ comp_idx = -1
  /\ roundIdx = 0
  /\ results = NoResults
  /\ reported = {}
  /\ outcome = <<>>
  /\ exitStatus = -1
  /\ created = 0
  /\ tagsShown = 0
  /\ revealsDone = 0
  /\ ret = NoRet

idleVars ==
  <<args, dices, err, rnd, selection, user_input, prompts, user_first, user_idx,
    comp_idx, roundIdx, results, reported, outcome, exitStatus, created, tagsShown,
    revealsDone, ret>>

\* largest computer_number and user_input, and largest num_sides, explored
MaxOperand == 7
MaxModulus == 7

InitCombine ==
  /\ pc = "cmb_args"
  /\ Idle
  /\ \E a \in 0..MaxOperand, b \in 0..MaxOperand, n \in 1..MaxModulus :
       probe = [fn |-> "combine", a |-> a, b |-> b, n |-> n, out |-> -1, swapped |-> -1]

\* (computer_number + user_input) % num_sides, and the same with the two
\* numbers exchanged
CmbApply ==
  /\ pc = "cmb_args"
  /\ probe' = [probe EXCEPT !.out = Combine(probe.a, probe.b, probe.n),
                            !.swapped = Combine(probe.b, probe.a, probe.n)]
  /\ pc' = "cmb_done"
  /\ UNCHANGED idleVars

NextCombine == CmbApply

SpecCombine == InitCombine /\ [][NextCombine]_vars

\* C13: for all a, b >= 0 and n >= 1 the combination (a + b) mod n is the
\* same for (a, b) and (b, a), lies in [0, n-1], and differs from a + b by a
\* multiple of n.
C13_CombineCommutesInRange ==
  pc = "cmb_done" =>
    /\ probe.out = probe.swapped
    /\ probe.out \in 0..(probe.n - 1)
    /\ \E q \in 0..(probe.a + probe.b) : probe.a + probe.b = q * probe.n + probe.out

\* a sum that wraps around, of two different numbers of which one is not
\* below the modulus
C13_Witness ==
  /\ pc = "cmb_done"
  /\ probe.a # probe.b /\ probe.b >= probe.n /\ probe.a + probe.b > 2 * probe.n
  /\ probe.out > 0


----------------------------------------------------------------------------
(* GameOrchestrator._parse_dice on its own, for many command lines *)

\* longest command line explored
MaxArgs == 3

\* die arguments: three good dice, a die with three faces, a die with a letter,
\* a short die with a letter, a die with seven faces, a die sharing values with
\* two others, and the first die written with blanks and empty fields
DieShort == Arg(<<"6", "8", "1">>)
DieLetter == Arg(<<"6", "8", "1", "a", "8", "6">>)
DieShortLetter == Arg(<<"6", "b">>)
DieSeven == Arg(<<"6", "8", "1", "1", "8", "6", "0">>)
DieX == Arg(<<"7", "5", "3", "7", "5", "9">>)
DieBlanks == Join(<< <<" ", "2">>, <<"2", " ">>, <<>>, <<"4">>, <<"+", "4">>, <<"9">>,
                     <<"0", "9">>, <<" ">> >>)

DiePool ==
  {DieA, DieB, DieC, DieShort, DieLetter, DieShortLetter, DieSeven, DieX, DieBlanks}

ParseLists == UNION {[1..n -> DiePool] : n \in 0..MaxArgs}

InitParse ==
  /\ pc = "init"
  /\ args \in ParseLists
  /\ dices = <<>>
  /\ err = NoErr
  /\ rnd = NoRnd
  /\ selection = <<>>
  /\ user_input = -1
  /\ prompts = 0
  /\ user_first = FALSE
  /\ user_idx = -1
  /\ comp_idx = -1
  /\ roundIdx = 0
  /\ results = NoResults
  /\ reported = {}
  /\ outcome = <<>>
  /\ exitStatus = -1
  /\ created = 0
  /\ tagsShown = 0
  /\ revealsDone = 0
  /\ ret = NoRet
  /\ probe = NoProbe

NextParse == ParseDice

SpecParse == InitParse /\ [][NextParse]_vars

\* the fields of a die argument that are not blank, without surrounding blanks
Fields(arg) ==
  LET parts == SplitComma(arg)
  IN SelectSeq([i \in 1..Len(parts) |-> Strip(parts[i])], NonEmpty)

NotIntegers(arg) == \E i \in 1..Len(Fields(arg)) : ~ParseInt(Fields(arg)[i]).ok

FaceCountOf(arg) == Len(Fields(arg))

FacesOf(arg) == [i \in 1..Len(Fields(arg)) |-> ParseInt(Fields(arg)[i]).val]

\* the rules of the validation, each on its own
BreaksMinDice(a) == Len(a) < MinDice
BreaksIntegers(a) == \E i \in 1..Len(a) : NotIntegers(a[i])
BreaksMinSides(a) == \E i \in 1..Len(a) : FaceCountOf(a[i]) < MinSides
BreaksOneCount(a) == \E i, j \in 1..Len(a) : FaceCountOf(a[i]) # FaceCountOf(a[j])
BreaksDistinct(a) ==
  \E i, j \in 1..Len(a) : i # j /\ FacesOf(a[i]) = FacesOf(a[j])
BreaksDisjoint(a) ==
  \E i, j \in 1..Len(a) :
    i # j /\ SeqRange(FacesOf(a[i])) \cap SeqRange(FacesOf(a[j])) # {}

\* the earliest violated rule in the order (a) to (e)
ListedRule(a) ==
  IF BreaksMinDice(a) THEN "min_dice"
  ELSE IF BreaksIntegers(a) THEN "non_integer"
  ELSE IF BreaksOneCount(a) THEN "size"
  ELSE IF BreaksDistinct(a) THEN "identical"
  ELSE IF BreaksDisjoint(a) THEN "common"
  ELSE "none"

\* the dice that are not lists of at least MinSides integers
BadDice(a) == {i \in 1..Len(a) : NotIntegers(a[i]) \/ FaceCountOf(a[i]) < MinSides}

\* the order with the face-count minimum: after (a), each die in argument order
\* is checked for integers and then for at least MinSides faces; then (c), (d), (e)
CheckedRule(a) ==
  IF BreaksMinDice(a) THEN "min_dice"
  ELSE IF BadDice(a) # {}
       THEN IF NotIntegers(a[Min(BadDice(a))]) THEN "non_integer" ELSE "too_few_sides"
  ELSE IF BreaksOneCount(a) THEN "size"
  ELSE IF BreaksDistinct(a) THEN "identical"
  ELSE IF BreaksDisjoint(a) THEN "common"
  ELSE "none"

\* C14 as stated: the error that aborts the program is the one of the earliest
\* violated rule in the order (a) at least 3 dice, (b) integers, (c) one face
\* count, (d) no identical dice, (e) no shared face value.
C14_ListedOrder ==
  pc = "error" => err.rule = ListedRule(args)

\* C14: the error that aborts the program is the one of the earliest violated
\* rule in the order (a) at least 3 dice; (b) for each die in argument order,
\* its faces are integers and then it has at least 6 faces; (c) one face
\* count; (d) no identical dice; (e) no shared face value; the error of rule
\* (b) names the first die that breaks it, and the exit status is 1.
C14_CheckedOrder ==
  /\ pc = "error" =>
       /\ err.rule = CheckedRule(args)
       /\ exitStatus = 1
       /\ err.rule \in {"non_integer", "too_few_sides"} => err.i = Min(BadDice(args))
  /\ (pc # "init" /\ CheckedRule(args) # "none") => pc = "error"

\* a die with too few faces stops the program although a later die has a
\* letter and two dice are identical
C14_Witness ==
  /\ pc = "error" /\ err.rule = "too_few_sides"
  /\ BreaksIntegers(args) /\ BreaksDistinct(args) /\ BreaksOneCount(args)


\* a command line that breaks no rule
Acceptable(a) ==
  /\ ~BreaksMinDice(a)
  /\ ~BreaksIntegers(a)
  /\ ~BreaksOneCount(a)
  /\ ~BreaksMinSides(a)
  /\ ~BreaksDistinct(a)
  /\ ~BreaksDisjoint(a)

\* the step of _parse_dice: acceptance, and the dice it returns
ParseStep ==
  pc = "init" =>
    /\ pc' = "error" <=> ~Acceptable(args)
    /\ pc' # "error" => dices' = [i \in 1..Len(args) |-> FacesOf(args[i])]

\* every later step: the command line and the dice stay, no error is raised
DiceKept ==
  pc # "init" => (dices' = dices /\ args' = args /\ pc' \notin {"init", "error"})

\* C15: a command line is accepted iff it has at least 3 dice, every die is a
\* list of integers, all dice have one face count, of at least 6, no two dice
\* are identical and no two share a value; a rejected one ends the process
\* with status 1 before any commitment or prompt; an accepted dice set is the
\* faces given and never changes afterwards.
C15_AcceptsIffValid ==
  /\ [][ParseStep]_vars
  /\ [](pc = "error" =>
          /\ exitStatus = 1
          /\ created = 0 /\ tagsShown = 0 /\ revealsDone = 0 /\ prompts = 0
          /\ reported = {} /\ outcome = <<>>)
  /\ [][DiceKept]_vars

\* a game played to its end with dice of seven faces, one of them negative
C15_Witness ==
  /\ pc = "done" /\ Acceptable(args)
  /\ Len(dices) = 3 /\ Len(dices[1]) = 7 /\ dices[1][7] = -1


----------------------------------------------------------------------------
(* ProbabilityCalculator.calculate_probability on its own *)

\* a tie counted as a win
WinsFaceOrTie(side_a, side_b) == side_a >= side_b

\* the comparison made on each pair of faces
WinsFace(side_a, side_b) == side_a > side_b

\* the faces paired by position instead of each with each
ProductPaired(sides_a, sides_b) ==
  [k \in 1..Min({Len(sides_a), Len(sides_b)}) |-> <<sides_a[k], sides_b[k]>>]

\* itertools.product(dice_a.sides, dice_b.sides): every pair of positions, the
\* position in dice_b running fastest
Product(sides_a, sides_b) ==
  [k \in 1..(Len(sides_a) * Len(sides_b)) |->
     <<sides_a[((k - 1) \div Len(sides_b)) + 1], sides_b[((k - 1) % Len(sides_b)) + 1]>>]

\* the loop over the pairs
RECURSIVE Tally(_, _, _)
Tally(pairs, a_wins, total) ==
  IF pairs = <<>> THEN [a_wins |-> a_wins, total |-> total]
  ELSE Tally(Tail(pairs),
             IF WinsFace(pairs[1][1], pairs[1][2]) THEN a_wins + 1 ELSE a_wins,
             total + 1)

\* calculate_probability: the counters at the end of the loop, and the value
\* returned as the fraction num / den (a_wins / total, or 0.0 for no pair)
CalculateProbability(sides_a, sides_b) ==
  LET t == Tally(Product(sides_a, sides_b), 0, 0)
  IN [a_wins |-> t.a_wins, total |-> t.total,
      num |-> IF t.total > 0 THEN t.a_wins ELSE 0,
      den |-> IF t.total > 0 THEN t.total ELSE 1]

\* longest die and largest face of the dice enumerated
MaxFaces == 3
MaxFaceValue == 3

ExampleA == <<2, 2, 4, 4, 9, 9>>
ExampleB == <<1, 1, 6, 6, 8, 8>>
ExampleC == <<3, 3, 5, 5, 7, 7>>

\* the three example dice and every die of up to MaxFaces faces in 1..MaxFaceValue
ProbDice ==
  {ExampleA, ExampleB, ExampleC}
    \cup UNION {[1..n -> 1..MaxFaceValue] : n \in 0..MaxFaces}

NoCount == [a_wins |-> -1, total |-> -1, num |-> -1, den |-> -1]

InitProb ==
  /\ pc = "prob_args"
  /\ Idle
  /\ \E A \in ProbDice, B \in ProbDice :
       probe = [fn |-> "calculate_probability", A |-> A, B |-> B,
                ab |-> NoCount, ba |-> NoCount]

\* calculate_probability(A, B) and calculate_probability(B, A), as for the two
\* cells of the table that compare A and B
ProbApply ==
  /\ pc = "prob_args"
  /\ probe' = [probe EXCEPT !.ab = CalculateProbability(probe.A, probe.B),
                            !.ba = CalculateProbability(probe.B, probe.A)]
  /\ pc' = "prob_done"
  /\ UNCHANGED idleVars

NextProb == ProbApply

SpecProb == InitProb /\ [][NextProb]_vars

\* the pairs of positions of the Cartesian product in which A's face is larger
WinningPairs(A, B) == {p \in (1..Len(A)) \X (1..Len(B)) : A[p[1]] > B[p[2]]}

MoreThanHalf(r) == 2 * r.num > r.den

\* C16: calculate_probability(A, B) is the number of ordered pairs (a, b) of
\* A x B with a > b divided by |A|*|B|, ties counting for neither die; for
\* A=[2,2,4,4,9,9], B=[1,1,6,6,8,8], C=[3,3,5,5,7,7] the probabilities of A
\* beating B, B beating C and C beating A are each above 1/2.
C16_ProbabilityIsWinRatio ==
  pc = "prob_done" =>
    /\ probe.ab.a_wins = Cardinality(WinningPairs(probe.A, probe.B))
    /\ probe.ab.total = Len(probe.A) * Len(probe.B)
    /\ probe.ab.total > 0 =>
         probe.ab.num * probe.ab.total = probe.ab.a_wins * probe.ab.den
    /\ probe.A = probe.B => probe.ab = probe.ba
    /\ (probe.A = ExampleA /\ probe.B = ExampleB) => MoreThanHalf(probe.ab)
    /\ (probe.A = ExampleB /\ probe.B = ExampleC) => MoreThanHalf(probe.ab)
    /\ (probe.A = ExampleC /\ probe.B = ExampleA) => MoreThanHalf(probe.ab)

\* A against B of the example: 20 of the 36 pairs
C16_Witness ==
  /\ pc = "prob_done" /\ probe.A = ExampleA /\ probe.B = ExampleB
  /\ probe.ab.a_wins = 20 /\ probe.ab.total = 36 /\ probe.ba.a_wins = 16

\* C17: for all dice A and B, wins(A,B) + wins(B,A) <= |A|*|B|, so that the
\* two probabilities add up to at most 1, with equality of the pair counts
\* exactly when no face of A equals a face of B.
C17_ComplementBound ==
  pc = "prob_done" =>
    /\ probe.ab.a_wins + probe.ba.a_wins <= Len(probe.A) * Len(probe.B)
    /\ probe.ab.num * probe.ba.den + probe.ba.num * probe.ab.den
         <= probe.ab.den * probe.ba.den
    /\ probe.ab.a_wins + probe.ba.a_wins = Len(probe.A) * Len(probe.B)
         <=> SeqRange(probe.A) \cap SeqRange(probe.B) = {}

\* two dice that tie on some pairs, each winning some
C17_Witness ==
  /\ pc = "prob_done"
  /\ SeqRange(probe.A) \cap SeqRange(probe.B) # {}
  /\ probe.ab.a_wins > 0 /\ probe.ba.a_wins > 0
  /\ probe.ab.a_wins + probe.ba.a_wins < probe.ab.total


----------------------------------------------------------------------------
(* Termination of the game *)

\* a step of the program itself, from any position but the wait for a line.
\* A rejected draw leaves every variable unchanged, so at the sampler the
\* steps that count are the accepted draws.
Runs == pc \notin InputPcs \cup {"init"} /\ Next

\* the user's line lets the program leave the prompt loop: an option of the
\* menu, or exit
Answers ==
  /\ pc \in InputPcs
  /\ pc' \in (TossPcs \cup SelPcs \cup RoundPcs \cup {"sys_exit"}) \ PromptPcs

\* The process is not suspended for ever, the sampler at last accepts a draw,
\* and a user who is asked again and again at last types an option.
SpecLive == Init /\ [][Next]_vars /\ WF_vars(Runs) /\ SF_pc(Answers)

Ended == pc \in {"done", "sys_exit"}

\* a step out of a stage goes to a later stage or out of the game
StageAdvances ==
  /\ pc \notin {"done", "sys_exit", "error"}
  /\ Stage' # Stage =>
       (PlayedRank(Stage') > PlayedRank(Stage) \/ pc' \in {"sys_exit", "error"})

\* C18: a game started with a valid dice set terminates: if the user at last
\* enters an option of the menu at each prompt and the sampler at last accepts
\* a draw, the game ends with the outcome message or by exit; it stays in no
\* stage for ever and returns to no earlier stage.
C18_Terminates ==
  /\ (pc = "toss_new") ~> Ended
  /\ [](pc = "done" => Len(outcome) = 1 /\ exitStatus = 0)
  /\ [](pc = "sys_exit" => outcome = <<>> /\ exitStatus = 0)
  /\ [][StageAdvances]_vars

\* a game that ended with the outcome message after lines were refused at the
\* last prompt
C18_Witness ==
  /\ pc = "done" /\ Len(outcome) = 1 /\ prompts = MaxPrompts
  /\ created = 3 /\ tagsShown = 3


----------------------------------------------------------------------------
(* The roll of a round *)

\* the die the party of the running round selected
OwnDie == IF Player = "User" THEN dices[user_idx + 1] ELSE dices[comp_idx + 1]

\* the step that computes and records the roll
RollStep ==
  pc = "round_calc" =>
    LET index == (ret.number + user_input) % Len(OwnDie)
    IN /\ user_input \in 0..(Len(OwnDie) - 1)
       /\ ret.number \in 0..(Len(OwnDie) - 1)
       /\ index + 1 \in DOMAIN OwnDie
       /\ results'[Player] = [has |-> TRUE, val |-> OwnDie[index + 1]]
       /\ \A q \in Players \ {Player} : results'[q] = results[q]
       /\ reported' = reported \cup {Player}

\* from the end of the selection on, the dice and the two selections stay
SelectionKept ==
  pc \in RoundPcs =>
    (user_idx' = user_idx /\ comp_idx' = comp_idx /\ dices' = dices)

\* C19: in each roll round the result is the face of the party's own selected
\* die (fixed since the selection) at index (revealed value + user input) mod
\* faceCount; the user input was accepted only if in [0, faceCount-1]; the
\* index is within the die, and the result is recorded under that party, so
\* that both results are there for the comparison.
C19_RollUsesOwnDie ==
  /\ [][RollStep]_vars
  /\ [][SelectionKept]_vars
  /\ [](pc \in RoundPcs =>
          /\ user_idx \in 0..(Len(dices) - 1) /\ comp_idx \in 0..(Len(dices) - 1)
          /\ user_idx # comp_idx)
  /\ [](pc = "compare" =>
          /\ results["User"].has /\ results["Computer"].has
          /\ results["User"].val \in SeqRange(dices[user_idx + 1])
          /\ results["Computer"].val \in SeqRange(dices[comp_idx + 1]))

\* both rolls are recorded, of dice with seven faces, the user having added 6
\* in the system's round
C19_Witness ==
  /\ pc = "compare" /\ selection = <<"6">>
  /\ user_idx = 2 /\ comp_idx = 0
  /\ results["User"].val \in SeqRange(dices[3])
  /\ results["Computer"].val = -1


----------------------------------------------------------------------------
(* The loop of _generate_secure_random, one attempt at a time *)

\* ranges whose draws are one byte: every width up to MaxSpan from two minima,
\* and two wide ranges
DrawRanges ==
  {<<lo, lo + n - 1>> : lo \in {-3, 0}, n \in 1..MaxSpan} \cup {<<0, 199>>, <<1, 255>>}

InitDraw ==
  /\ pc = "drw_new"
  /\ Idle
  /\ probe = NoProbe

DrwConstruct ==
  /\ pc = "drw_new"
  /\ \E range \in DrawRanges : Construct(range[1], range[2], "drw_loop")

\* one iteration of the loop; probe keeps the locals of the iteration
DrwAttempt ==
  /\ pc = "drw_loop"
  /\ \E rand_num \in DrawSpace(rnd.range_size) :
       /\ probe' = [fn |-> "_generate_secure_random",
                    nbytes |-> DrawBytes(rnd.range_size),
                    rand_num |-> rand_num,
                    accepted |-> Accepts(rand_num, rnd.range_size)]
       /\ IF Accepts(rand_num, rnd.range_size)
          THEN /\ rnd' = [rnd EXCEPT !.computer_number = rand_num + rnd.start]
               /\ pc' = "drw_done"
          ELSE UNCHANGED <<rnd, pc>>
  /\ UNCHANGED <<args, dices, err, user_first, user_idx, comp_idx, roundIdx, results,
                 outVars, countVars, selection, user_input, prompts, ret>>

NextDraw == DrwConstruct \/ DrwAttempt

SpecDraw == InitDraw /\ [][NextDraw]_vars

\* the draws that are accepted and returned as v
AcceptedDrawsFor(v) ==
  {r \in DrawSpace(rnd.range_size) : Accepts(r, rnd.range_size) /\ rnd.start + r = v}

\* C20: the sampler draws ceil(bits_needed / 8) bytes, bits_needed being the
\* bit length of max-min+1; it accepts a draw r iff r < max-min+1 and draws
\* again otherwise; it returns min + r; so each value of [min, max] is
\* returned by exactly one accepted draw.
C20_RejectionSampling ==
  pc \in {"drw_loop", "drw_done"} =>
    LET size == rnd.end - rnd.start + 1
        bits == CHOOSE b \in 1..16 : Pow(2, b - 1) <= size /\ size < Pow(2, b)
    IN /\ probe = NoProbe =>
            \A v \in rnd.start..rnd.end : Cardinality(AcceptedDrawsFor(v)) = 1
       /\ probe # NoProbe =>
            /\ probe.nbytes * 8 >= bits /\ (probe.nbytes - 1) * 8 < bits
            /\ probe.rand_num \in 0..(Pow(256, probe.nbytes) - 1)
            /\ probe.accepted <=> probe.rand_num < size
            /\ probe.accepted =>
                 (pc = "drw_done" /\ rnd.computer_number = rnd.start + probe.rand_num)
            /\ ~probe.accepted => (pc = "drw_loop" /\ rnd.computer_number = -1)
       /\ pc = "drw_done" => (probe # NoProbe /\ probe.accepted)

\* the largest draw that is accepted, of a range of 200 values, after which
\* the value is the maximum
C20_Witness ==
  /\ pc = "drw_done" /\ rnd.range_size = 200
  /\ probe.rand_num = 199 /\ rnd.computer_number = rnd.end

====
